---- MODULE Spec2Model ----
(***************************************************************************)
(* Model of electron/main/database/Table.ts: the RagnoteTable facade over  *)
(* a vector store table, its chunked batch writer, and the orchestration   *)
(* entry points maybeRePopulateTable, addTreeToTable, removeTreeFromTable   *)
(* and updateNoteInTable.                                                   *)
(*                                                                         *)
(* The store table is a sequence of rows in store order.  An asynchronous  *)
(* handler is one action for its call, which runs it to its first await,   *)
(* and one per await, which resumes it when what it awaits settles (its    *)
(* position is pc).  Every store call is appended to storeLog when it      *)
(* settles and every progress callback invocation to progressLog; both are *)
(* reset when a call begins.                                               *)
(*                                                                         *)
(* Note paths are integers: 1 stands for "a.md", 2 for "b.md" (SpecBulk    *)
(* and SpecRun number theirs 1..n).  A progress value index/totalChunks is *)
(* the pair <<index, totalChunks>>, compared as a fraction.                *)
(***************************************************************************)
EXTENDS Integers, Sequences, FiniteSets, TLC

VARIABLES
    initialized,   \* RagnoteTable.table has been assigned by initialize
    table,         \* rows of the store table, in store order
    dir,           \* paths GetFilesInfoList finds under the directory
    now,           \* the reading new Date() gives
    op,            \* the entry point in flight, or the last one completed
    pc,            \* its position: "idle", an await point, or "done"
    arg,           \* its arguments
    frame,         \* its local variables (they end with the call)
    storeLog,      \* store calls issued by the call
    progressLog,   \* progress values the call passed to the callback
    failures,      \* store writes of the call that threw
    result,        \* "none" in flight, "ok", or the error the call failed with
    retval,        \* the value the call returned
    atCall,        \* what the table and the directory held when the call began:
                   \* the number of rows; for an update the timestamps of the
                   \* path's rows, for a run the listing, for a removal the rows
    prev           \* the call just before, if it was a completed run of
                   \* maybeRePopulateTable or an updateNoteInTable that stopped
                   \* after its delete

vars == <<initialized, table, dir, now, op, pc, arg, frame, storeLog,
          progressLog, failures, result, retval, atCall, prev>>

----------------------------------------------------------------------------
(* Bounds of the model *)

MaxTime == 1       \* clock readings 0..MaxTime
MaxRows == 2       \* rows the table may hold in Spec
MaxBulk == 101     \* longest list of records in SpecBulk, of files in SpecRun
MaxRaw == 2        \* rows of the table the facade opens in SpecFacade

(* Program constants *)

chunkSize == 50

\* The note paths: 1 is "a.md", 2 is "b.md".
Paths == {1, 2}

----------------------------------------------------------------------------
(* Records and rows *)

RequiredFields == {"notepath", "vector", "content", "subnoteindex", "timeadded"}

\* The vector the bound embedding function derives from the content field.
Embed(content) == <<"embedding", content>>

\* convertFileTypeToDBType: readFile gives the file's text, or "" when the
\* read throws.
readFile(read) == IF read.ok THEN read.data ELSE ""

convertFileTypeToDBType(path, read, time) ==
    [notepath |-> path, content |-> readFile(read), subnoteindex |-> 0,
     timeadded |-> time]

\* The row the store keeps for an entry written through table.add: the entry's
\* fields and the vector of its content.
StoredRow(e) ==
    [notepath |-> e.notepath, vector |-> Embed(e.content), content |-> e.content,
     subnoteindex |-> e.subnoteindex, timeadded |-> e.timeadded]

StoredRows(chunk) == [i \in 1..Len(chunk) |-> StoredRow(chunk[i])]

Null == [isnull |-> TRUE]

convertRawDBResultToRagnoteDBEntry(record) ==
    IF /\ "notepath" \in DOMAIN record
       /\ "vector" \in DOMAIN record
       /\ "content" \in DOMAIN record
       /\ "subnoteindex" \in DOMAIN record
       /\ "timeadded" \in DOMAIN record
    THEN record
    ELSE Null

----------------------------------------------------------------------------
(* Filter expressions of the store *)

NoFilter == [field |-> "none", cmp |-> "none", path |-> 0, text |-> ""]
\* Faulty variant: both queries of getTableAsArray ask for non-empty content.
ContentFilterNonEmpty(c) == [field |-> "content", cmp |-> "!=", path |-> 0, text |-> ""]

ContentFilter(c) == [field |-> "content", cmp |-> c, path |-> 0, text |-> ""]
PathFilter(p) == [field |-> "notepath", cmp |-> "=", path |-> p, text |-> ""]

Matches(row, f) ==
    CASE f.field = "none" -> TRUE
      [] f.field = "content" ->
            /\ "content" \in DOMAIN row
            /\ IF f.cmp = "=" THEN row.content = f.text ELSE row.content # f.text
      [] f.field = "notepath" ->
            /\ "notepath" \in DOMAIN row
            /\ row.notepath = f.path

\* The rows of rows that match f, in store order
Matching(rows, f) == SelectSeq(rows, LAMBDA r : Matches(r, f))

\* The increasing lists of at most n of the positions 1..len
RECURSIVE Positions(_, _)
Positions(len, n) ==
    IF n = 0 THEN {<<>>}
    ELSE LET shorter == Positions(len, n - 1)
         IN  shorter \cup
             UNION {{Append(q, i) : i \in (IF q = <<>> THEN 1 ELSE q[Len(q)] + 1)..len} :
                       q \in {r \in shorter : Len(r) = n - 1}}

\* The selections of at most n entries of s, in the order of s
Selections(s, n) ==
    {[k \in 1..Len(q) |-> s[q[k]]] : q \in Positions(Len(s), IF n < Len(s) THEN n ELSE Len(s))}

\* table.search(..).filter(f).limit(n).execute(): the results the store may
\* give.  A limit that covers the table gives every matching row; below the
\* length of the table the store gives at most n of the matching rows and
\* may miss any of them (the remark at isFileInDB's tableCount).
StoreQuery(rows, f, n) ==
    IF n >= Len(rows)
    THEN {Matching(rows, f)}
    ELSE Selections(Matching(rows, f), n)

\* Faulty variant: the delete removes nothing.
StoreDeleteNone(rows, f) == rows

\* table.delete(f): the rows that remain.
StoreDelete(rows, f) == SelectSeq(rows, LAMBDA r : ~Matches(r, f))

StoreCall(c, f, n, ok) == [call |-> c, filter |-> f, n |-> n, ok |-> ok]

\* The number of chunk writes among the store calls of log
WriteCalls(log) == Cardinality({i \in 1..Len(log) : log[i].call = "add"})

----------------------------------------------------------------------------
(* RagnoteTable.add: chunking *)

Min(a, b) == IF a < b THEN a ELSE b

\* Faulty variant: the slice ends one record early.
SliceShort(s, from, to) == SubSeq(s, from + 1, Min(to - 1, Len(s)))

\* recordEntry.slice(from, to), positions counted from 0
Slice(s, from, to) == SubSeq(s, from + 1, Min(to, Len(s)))

RECURSIVE ChunksFrom(_, _)
ChunksFrom(recordEntry, i) ==
    IF i < Len(recordEntry)
    THEN <<Slice(recordEntry, i, i + chunkSize)>> \o ChunksFrom(recordEntry, i + chunkSize)
    ELSE <<>>

Chunks(recordEntry) == ChunksFrom(recordEntry, 0)

\* index / totalChunks, and the 1 of onProgress(1)
Progress(i, totalChunks) == <<i, totalChunks>>
One == <<1, 1>>
IsOne(f) == f[1] = f[2]
Less(f, g) == f[1] * g[2] < g[1] * f[2]


\* Faulty variant: the catch breaks out of the loop.
NextIndexBreak(ok, i, totalChunks) == IF ok THEN i + 1 ELSE totalChunks

\* The index after one pass of the loop: the catch neither breaks nor retries.
NextIndex(ok, i, totalChunks) == i + 1

\* The log after if (onProgress) onProgress(value)
Report(log, cb, value) == IF cb THEN Append(log, value) ELSE log

\* Faulty variant: maybeRePopulateTable leaves the last report to add.
FinalProgressOmitted(log, cb) == log

\* if (onProgress) onProgress(1), after add has returned
FinalProgress(log, cb) == Report(log, cb, One)

----------------------------------------------------------------------------
(* maybeRePopulateTable, getTableAsArray, isFileInDB: their pure parts *)

\* GetFilesInfoList: the files of the directory, each once, in path order.
Listing(files) ==
    IF files = {} THEN <<>>
    ELSE LET last == CHOOSE p \in files : \A q \in files : q <= p
         IN  SelectSeq([p \in 1..last |-> p], LAMBDA p : p \in files)

\* rawResults.map(convertRawDBResultToRagnoteDBEntry), returned as it is
MapResults(raw) == [i \in 1..Len(raw) |-> convertRawDBResultToRagnoteDBEntry(raw[i])]

\* Faulty variant: the rows with empty content are left out.
ConcatNonEmptyOnly(nonEmptyResults, emptyResults) == nonEmptyResults

\* nonEmptyResults.concat(emptyResults)
ConcatResults(nonEmptyResults, emptyResults) == nonEmptyResults \o emptyResults

\* Faulty variant: the set of paths is left empty.
tableArrayPathsNone(rows) == {}

\* new Set(tableArray.map((x) => x.notepath))
tableArrayPaths(rows) == {rows[i].notepath : i \in 1..Len(rows)}

\* Faulty variant: the filter keeps the files that are in the table.
MissingFilesInverted(listing, rows) ==
    LET present == tableArrayPaths(rows)
    IN  SelectSeq(listing, LAMBDA p : p \in present)

\* filesInfoList.filter((fileInfo) => !tableArrayPaths.has(fileInfo.path))
MissingFiles(listing, rows) ==
    LET present == tableArrayPaths(rows)
    IN  SelectSeq(listing, LAMBDA p : p \notin present)

\* .map(convertFileTypeToDBType)
\* The records are built one after the other, each with the reading new
\* Date() gives once its own file has been read: times[i] is that reading.
ConvertFiles(paths, reads, times) ==
    [i \in 1..Len(paths) |-> convertFileTypeToDBType(paths[i], reads[i], times[i])]

\* times are n successive readings of new Date() from the reading from on:
\* the clock goes on while the files are read, and never back.
ClockGoesOn(times, n, from) ==
    /\ DOMAIN times = 1..n
    /\ \A i \in 1..n : times[i] \in from..MaxTime
    /\ \A i \in 1..(n - 1) : times[i] <= times[i + 1]

\* How a clock at the reading from may go on during n successive new Date():
\* cut[t] of the n readings are taken before the clock shows t.
ClockCuts(n, from) ==
    {cut \in [(from + 1)..MaxTime -> 0..n] :
        \A t \in (from + 1)..(MaxTime - 1) : cut[t] <= cut[t + 1]}

\* The readings n successive new Date() may give from the reading from on:
\* every sequence times with ClockGoesOn(times, n, from).
ClockReadings(n, from) ==
    {[i \in 1..n |-> from + Cardinality({t \in (from + 1)..MaxTime : cut[t] < i})] :
        cut \in ClockCuts(n, from)}

\* The reading of the clock after the readings times, taken from the reading from on
ClockAfter(times, from) == IF times = <<>> THEN from ELSE times[Len(times)]

\* Faulty variant: the record is stamped with the epoch, not with the
\* timestamp just taken.
UpdatedEntryEpoch(filePath, content, currentTimestamp) ==
    [notepath |-> filePath, content |-> content, subnoteindex |-> 0,
     timeadded |-> 0]

\* The record updateNoteInTable inserts
UpdatedEntry(filePath, content, currentTimestamp) ==
    [notepath |-> filePath, content |-> content, subnoteindex |-> 0,
     timeadded |-> currentTimestamp]

\* Faulty variant: the query of isFileInDB carries no filter.
FileResultsAnyRow(rows, filePath, tableCount) ==
    {MapResults(raw) : raw \in StoreQuery(rows, NoFilter, tableCount)}

\* The results table.filter(notepath = filePath, tableCount) may give
\* isFileInDB
FileResults(rows, filePath, tableCount) ==
    {MapResults(raw) : raw \in StoreQuery(rows, PathFilter(filePath), tableCount)}

\* The values isFileInDB may return
IsFileInDB(rows, filePath, tableCount) ==
    IF tableCount = 0 THEN {FALSE}
    ELSE {Len(results) > 0 : results \in FileResults(rows, filePath, tableCount)}

----------------------------------------------------------------------------
(* Calls *)

Idle == pc \in {"idle", "done"}

NoArg == [path |-> 0, content |-> "", limit |-> 0, filter |-> NoFilter,
          data |-> <<>>, onProgress |-> FALSE]
NoFrame == [chunks |-> <<>>, index |-> 0, onProgress |-> FALSE,
            filesInfoList |-> <<>>, totalRows |-> 0, tableArray |-> <<>>,
            filePaths |-> <<>>, inFlight |-> <<>>]
NoValue == [count |-> 0, rows |-> <<>>, found |-> FALSE]
NoRun == [op |-> "none", listing |-> <<>>, failures |-> 0, rows |-> 0]
NoTable == [rows |-> 0, prior |-> <<>>, listing |-> <<>>, table |-> <<>>]

RowsOf(rows, path) ==
    SelectSeq(rows, LAMBDA r : "notepath" \in DOMAIN r /\ r.notepath = path)

TimesOf(rows) == [i \in 1..Len(rows) |-> rows[i].timeadded]

Env == <<initialized, table, dir, now>>
Call == <<op, arg, atCall, prev>>

\* Entry point o is called with arguments a.
Begin(o, a) ==
    /\ Idle
    /\ op' = o
    /\ arg' = a
    /\ atCall' = [rows |-> Len(table),
                  prior |-> IF o = "update" THEN TimesOf(RowsOf(table, a.path)) ELSE <<>>,
                  listing |-> IF o = "repopulate" THEN Listing(dir) ELSE <<>>,
                  table |-> IF o = "removeTree" THEN table ELSE <<>>]
    /\ prev' = IF op = "repopulate" /\ result = "ok"
               THEN [op |-> op, listing |-> atCall.listing, failures |-> failures,
                     rows |-> atCall.rows]
               ELSE IF op = "update" /\ result = "stopped" /\ WriteCalls(storeLog) = 0
                       /\ Len(storeLog) = 1
               THEN [op |-> op, listing |-> <<arg.path>>, failures |-> failures,
                     rows |-> atCall.rows]
               ELSE NoRun

\* The call runs to its first await, with locals f.
Start(label, f) ==
    /\ pc' = label
    /\ frame' = f
    /\ storeLog' = <<>>
    /\ progressLog' = <<>>
    /\ failures' = 0
    /\ result' = "none"
    /\ retval' = NoValue

\* The call runs on to its next await, with locals f.
Step(label, f) ==
    /\ pc' = label
    /\ frame' = f
    /\ UNCHANGED <<result, retval>>

\* The call returns v, or fails with error r; its locals end with it.
Return(r, v) ==
    /\ pc' = "done"
    /\ frame' = NoFrame
    /\ result' = r
    /\ retval' = v

\* A call that ends where it is made, before it reaches an await: nothing is
\* issued to the store.
EndAtCall(o, a, r, v) ==
    /\ Begin(o, a)
    /\ storeLog' = <<>>
    /\ progressLog' = <<>>
    /\ failures' = 0
    /\ Return(r, v)

\* A store call of a step throws: the error propagates to the caller.  The
\* store commits a call as a whole: one that throws has changed no row.
Reject(call, f, n) ==
    /\ initialized
    /\ storeLog' = Append(storeLog, StoreCall(call, f, n, FALSE))
    /\ Return("StoreError", NoValue)

\* this.table.<call> without a table throws a TypeError; nothing is issued.
RejectNoTable ==
    /\ ~initialized
    /\ Return("TypeError", NoValue)
    /\ UNCHANGED storeLog

----------------------------------------------------------------------------
(* RagnoteTable.initialize *)

\* initialize is called and awaits createEmbeddingFunction; nothing is
\* assigned yet.
initialize ==
    /\ Begin("initialize", NoArg)
    /\ Start("createEmbedding", NoFrame)
    /\ UNCHANGED Env

\* createEmbeddingFunction settles.  A failure ends the call; otherwise
\* embedFun, userDirectory and dbConnection are assigned, and
\* GetOrCreateLanceTable is called and awaited: this.table is not assigned yet.
initializeEmbedding(ok) ==
    /\ pc = "createEmbedding"
    /\ IF ok THEN Step("openTable", frame) ELSE Return("EmbeddingError", NoValue)
    /\ UNCHANGED <<Env, Call, storeLog, progressLog, failures>>

\* GetOrCreateLanceTable settles: this.table is assigned, or the call fails
\* and the table is as it was (unset before the first successful initialize).
initializeTable(ok) ==
    /\ pc = "openTable"
    /\ Return(IF ok THEN "ok" ELSE "StoreError", NoValue)
    /\ initialized' = (initialized \/ ok)
    /\ UNCHANGED <<table, dir, now, Call, storeLog, progressLog, failures>>

----------------------------------------------------------------------------
(* RagnoteTable.add *)

\* The locals of add(data, onProgress) when its loop begins
AddFrame(data, cb) ==
    [NoFrame EXCEPT !.chunks = Chunks(data), !.index = 0, !.onProgress = cb]

add(data, cb) ==
    /\ Begin("add", [NoArg EXCEPT !.data = data, !.onProgress = cb])
    /\ Start("add", AddFrame(data, cb))
    /\ UNCHANGED Env

\* One pass of the loop: await this.table.add(chunk) inside try/catch, then
\* index++ and the progress callback.  Without a table the call expression
\* throws a TypeError, which the catch swallows like a store error.
addChunk(ok) ==
    /\ pc = "add"
    /\ frame.index < Len(frame.chunks)
    /\ LET chunk == frame.chunks[frame.index + 1]
           next == NextIndex(ok, frame.index, Len(frame.chunks))
       IN  /\ IF initialized
              THEN /\ storeLog' = Append(storeLog, StoreCall("add", NoFilter, Len(chunk), ok))
                   /\ table' = IF ok THEN table \o StoredRows(chunk) ELSE table
              ELSE /\ ~ok
                   /\ UNCHANGED <<storeLog, table>>
           /\ failures' = IF ok THEN failures ELSE failures + 1
           /\ progressLog' = Report(progressLog, frame.onProgress,
                                    Progress(next, Len(frame.chunks)))
           /\ Step("add", [frame EXCEPT !.index = next])
    /\ UNCHANGED <<initialized, dir, now, Call>>

\* Faulty variant: add rethrows at the end when a chunk write failed.
addReturnRethrow ==
    /\ pc = "add"
    /\ frame.index >= Len(frame.chunks)
    /\ IF failures > 0
       THEN /\ Return("StoreError", NoValue)
            /\ UNCHANGED progressLog
       ELSE IF op = "repopulate"
       THEN /\ progressLog' = FinalProgress(progressLog, arg.onProgress)
            /\ Step("countRows", frame)
       ELSE /\ Return("ok", NoValue)
            /\ UNCHANGED progressLog
    /\ UNCHANGED <<Env, Call, storeLog, failures>>

\* The loop is over and add returns to whoever awaits it: maybeRePopulateTable
\* goes on to onProgress(1) and its final countRows, the others return.
addReturn ==
    /\ pc = "add"
    /\ frame.index >= Len(frame.chunks)
    /\ IF op = "repopulate"
       THEN /\ progressLog' = FinalProgress(progressLog, arg.onProgress)
            /\ Step("countRows", frame)
       ELSE /\ Return("ok", NoValue)
            /\ UNCHANGED progressLog
    /\ UNCHANGED <<Env, Call, storeLog, failures>>

----------------------------------------------------------------------------
(* RagnoteTable.delete, search, filter, countRows *)

\* delete is called: this.table.delete(filter) is issued (a TypeError
\* without a table) and awaited.
delete(f) ==
    /\ LET a == [NoArg EXCEPT !.filter = f]
       IN  IF ~initialized
           THEN EndAtCall("delete", a, "TypeError", NoValue)
           ELSE Begin("delete", a) /\ Start("deleteRows", NoFrame)
    /\ UNCHANGED Env

\* The delete settles: the matching rows are gone, or the call throws.
deleteSettle(ok) ==
    /\ pc = "deleteRows"
    /\ \/ /\ ~ok
          /\ Reject("delete", arg.filter, 0)
          /\ UNCHANGED table
       \/ /\ ok
          /\ storeLog' = Append(storeLog, StoreCall("delete", arg.filter, 0, TRUE))
          /\ table' = StoreDelete(table, arg.filter)
          /\ Return("ok", NoValue)
    /\ UNCHANGED <<initialized, dir, now, Call, progressLog, failures>>

\* search is called: this.table.search(query).limit(limit) builds the query
\* (a TypeError without a table) and the function awaits that query object,
\* which is no promise: it yields before anything is issued to the store.
search(f, limit) ==
    /\ LET a == [NoArg EXCEPT !.filter = f, !.limit = limit]
       IN  IF ~initialized
           THEN EndAtCall("search", a, "TypeError", NoValue)
           ELSE Begin("search", a) /\ Start("execute", NoFrame)
    /\ UNCHANGED Env

\* search resumes: the filter, if any, is set and the query is executed; the
\* function awaits its results.
searchExecute ==
    /\ pc = "execute"
    /\ Step("searchRows", frame)
    /\ UNCHANGED <<Env, Call, storeLog, progressLog, failures>>

\* The query settles: its rows are mapped and returned.  (The store ranks
\* the rows by their distance to the query vector; the model keeps them in
\* store order.)
searchSettle(ok) ==
    /\ pc = "searchRows"
    /\ \/ ~ok /\ Reject("search", arg.filter, arg.limit)
       \/ /\ ok
          /\ storeLog' = Append(storeLog, StoreCall("search", arg.filter, arg.limit, TRUE))
          /\ \E raw \in StoreQuery(table, arg.filter, arg.limit) :
                 Return("ok", [NoValue EXCEPT !.rows = MapResults(raw)])
    /\ UNCHANGED <<Env, Call, progressLog, failures>>

\* filter is called: the query is built and executed (a TypeError without a
\* table), and the function awaits its results.
filter(f, limit) ==
    /\ LET a == [NoArg EXCEPT !.filter = f, !.limit = limit]
       IN  IF ~initialized
           THEN EndAtCall("filter", a, "TypeError", NoValue)
           ELSE Begin("filter", a) /\ Start("filterRows", NoFrame)
    /\ UNCHANGED Env

\* The query settles: its rows are mapped and returned.
filterSettle(ok) ==
    /\ pc = "filterRows"
    /\ \/ ~ok /\ Reject("search", arg.filter, arg.limit)
       \/ /\ ok
          /\ storeLog' = Append(storeLog, StoreCall("search", arg.filter, arg.limit, TRUE))
          /\ \E raw \in StoreQuery(table, arg.filter, arg.limit) :
                 Return("ok", [NoValue EXCEPT !.rows = MapResults(raw)])
    /\ UNCHANGED <<Env, Call, progressLog, failures>>

\* countRows is called: this.table.countRows() is issued (a TypeError
\* without a table) and awaited.
countRows ==
    /\ IF ~initialized
       THEN EndAtCall("countRows", NoArg, "TypeError", NoValue)
       ELSE Begin("countRows", NoArg) /\ Start("countTable", NoFrame)
    /\ UNCHANGED Env

\* The count settles and is returned.
countRowsSettle(ok) ==
    /\ pc = "countTable"
    /\ \/ ~ok /\ Reject("countRows", NoFilter, 0)
       \/ /\ ok
          /\ storeLog' = Append(storeLog, StoreCall("countRows", NoFilter, 0, TRUE))
          /\ Return("ok", [NoValue EXCEPT !.count = Len(table)])
    /\ UNCHANGED <<Env, Call, progressLog, failures>>

----------------------------------------------------------------------------
(* maybeRePopulateTable, with getTableAsArray *)

\* readFile: the file's text is read, or the read throws.
ReadOutcomes == {[ok |-> TRUE, data |-> "note"], [ok |-> FALSE, data |-> ""]}

maybeRePopulateTable(cb) ==
    /\ Begin("repopulate", [NoArg EXCEPT !.onProgress = cb])
    /\ Start("getTableAsArray", [NoFrame EXCEPT !.filesInfoList = Listing(dir)])
    /\ UNCHANGED Env

\* const totalRows = await table.countRows(); if (totalRows == 0) return []
getTableAsArrayCount(ok) ==
    /\ pc = "getTableAsArray"
    /\ \/ ok /\ RejectNoTable
       \/ ~ok /\ Reject("countRows", NoFilter, 0)
       \/ /\ ok /\ initialized
          /\ storeLog' = Append(storeLog, StoreCall("countRows", NoFilter, 0, TRUE))
          /\ Step(IF Len(table) = 0 THEN "convert" ELSE "filterNonEmpty",
                  [frame EXCEPT !.totalRows = Len(table), !.tableArray = <<>>])
    /\ UNCHANGED <<Env, Call, progressLog, failures>>

\* table.filter(content != '', totalRows)
getTableAsArrayNonEmpty(ok) ==
    /\ pc = "filterNonEmpty"
    /\ LET f == ContentFilter("!=")
       IN  \/ ~ok /\ Reject("search", f, frame.totalRows)
           \/ /\ ok
              /\ storeLog' = Append(storeLog, StoreCall("search", f, frame.totalRows, TRUE))
              /\ \E raw \in StoreQuery(table, f, frame.totalRows) :
                     Step("filterEmpty", [frame EXCEPT !.tableArray = MapResults(raw)])
    /\ UNCHANGED <<Env, Call, progressLog, failures>>

\* table.filter(content = '', totalRows), and the concat of the two results
getTableAsArrayEmpty(ok) ==
    /\ pc = "filterEmpty"
    /\ LET f == ContentFilter("=")
       IN  \/ ~ok /\ Reject("search", f, frame.totalRows)
           \/ /\ ok
              /\ storeLog' = Append(storeLog, StoreCall("search", f, frame.totalRows, TRUE))
              /\ \E raw \in StoreQuery(table, f, frame.totalRows) :
                     Step("convert",
                          [frame EXCEPT !.tableArray =
                               ConcatResults(frame.tableArray, MapResults(raw))])
    /\ UNCHANGED <<Env, Call, progressLog, failures>>

\* The missing files are converted (reads[i] is the outcome of reading the
\* i-th of them, times[i] the clock reading taken after it) and add is
\* entered.  A null among the rows makes x.notepath throw a TypeError.
convertMissing(reads, times) ==
    /\ pc = "convert"
    /\ IF \E i \in 1..Len(frame.tableArray) : frame.tableArray[i] = Null
       THEN /\ reads = <<>>
            /\ times = <<>>
            /\ Return("TypeError", NoValue)
            /\ UNCHANGED now
       ELSE LET missing == MissingFiles(frame.filesInfoList, frame.tableArray)
            IN  /\ Len(reads) = Len(missing)
                /\ ClockGoesOn(times, Len(missing), now)
                /\ now' = ClockAfter(times, now)
                /\ Step("add", [frame EXCEPT
                                  !.chunks = Chunks(ConvertFiles(missing, reads, times)),
                                  !.index = 0,
                                  !.onProgress = arg.onProgress])
    /\ UNCHANGED <<initialized, table, dir, Call, storeLog, progressLog, failures>>

\* console.log("db count now is: ", await table.countRows())
finalCountRows(ok) ==
    /\ pc = "countRows"
    /\ \/ ~ok /\ Reject("countRows", NoFilter, 0)
       \/ /\ ok
          /\ storeLog' = Append(storeLog, StoreCall("countRows", NoFilter, 0, TRUE))
          /\ Return("ok", NoValue)
    /\ UNCHANGED <<Env, Call, progressLog, failures>>

----------------------------------------------------------------------------
(* isFileInDB *)

\* isFileInDB is called: with a count of 0 it returns false at once;
\* otherwise table.filter is called and its promise awaited.  Without a table
\* that promise is already rejected, with nothing issued, and the await
\* yields all the same.
isFileInDB(filePath, tableCount) ==
    /\ LET a == [NoArg EXCEPT !.path = filePath, !.limit = tableCount]
       IN  IF tableCount = 0
           THEN EndAtCall("isFileInDB", a, "ok", NoValue)
           ELSE Begin("isFileInDB", a) /\ Start("fileRows", NoFrame)
    /\ UNCHANGED Env

\* The await of table.filter resumes: its TypeError without a table or the
\* error of the store propagates, or results.length > 0 is returned (rows
\* keeps the results it was taken of).
isFileInDBSettle(ok) ==
    /\ pc = "fileRows"
    /\ \/ ok /\ RejectNoTable
       \/ ~ok /\ Reject("search", PathFilter(arg.path), arg.limit)
       \/ /\ ok /\ initialized
          /\ storeLog' = Append(storeLog,
                                StoreCall("search", PathFilter(arg.path), arg.limit, TRUE))
          /\ \E results \in FileResults(table, arg.path, arg.limit) :
                 Return("ok", [NoValue EXCEPT !.rows = results,
                                              !.found = Len(results) > 0])
    /\ UNCHANGED <<Env, Call, progressLog, failures>>

----------------------------------------------------------------------------
(* addTreeToTable, removeTreeFromTable, updateNoteInTable *)

\* flattenFileInfoTree(tree): the files of a tree, each once, in path order.
Trees == {Listing(files) : files \in SUBSET Paths}

\* convertTreeToDBEntries, then dbTable.add(dbEntries) without a callback
addTreeToTable(tree, reads, times) ==
    /\ Begin("addTree", [NoArg EXCEPT !.data = tree])
    /\ ClockGoesOn(times, Len(tree), now)
    /\ now' = ClockAfter(times, now)
    /\ Start("add", AddFrame(ConvertFiles(tree, reads, times), FALSE))
    /\ UNCHANGED <<initialized, table, dir>>

removeTreeFromTable(tree) ==
    /\ Begin("removeTree", [NoArg EXCEPT !.data = tree])
    /\ Start("removeTree", [NoFrame EXCEPT !.filePaths = tree])
    /\ UNCHANGED Env

\* Faulty variant: a failure of a delete is swallowed and the loop goes on.
removeTreeDeleteContinue(ok) ==
    /\ pc = "removeTree"
    /\ frame.filePaths # <<>>
    /\ LET f == PathFilter(Head(frame.filePaths))
       IN  \/ ok /\ RejectNoTable /\ UNCHANGED table
           \/ /\ initialized
              /\ storeLog' = Append(storeLog, StoreCall("delete", f, 0, ok))
              /\ table' = IF ok THEN StoreDelete(table, f) ELSE table
              /\ Step("removeTree", [frame EXCEPT !.filePaths = Tail(frame.filePaths)])
    /\ UNCHANGED <<initialized, dir, now, Call, progressLog, failures>>

\* for (const filePath of filePaths) await dbTable.delete(notepath = filePath)
removeTreeDelete(ok) ==
    /\ pc = "removeTree"
    /\ frame.filePaths # <<>>
    /\ LET f == PathFilter(Head(frame.filePaths))
       IN  \/ ok /\ RejectNoTable /\ UNCHANGED table
           \/ ~ok /\ Reject("delete", f, 0) /\ UNCHANGED table
           \/ /\ ok /\ initialized
              /\ storeLog' = Append(storeLog, StoreCall("delete", f, 0, TRUE))
              /\ table' = StoreDelete(table, f)
              /\ Step("removeTree", [frame EXCEPT !.filePaths = Tail(frame.filePaths)])
    /\ UNCHANGED <<initialized, dir, now, Call, progressLog, failures>>

removeTreeReturn ==
    /\ pc = "removeTree"
    /\ frame.filePaths = <<>>
    /\ Return("ok", NoValue)
    /\ UNCHANGED <<Env, Call, storeLog, progressLog, failures>>

\* The new content updateNoteInTable is given
UpdateContents == {"edit"}

updateNoteInTable(filePath, content) ==
    /\ Begin("update", [NoArg EXCEPT !.path = filePath, !.content = content])
    /\ Start("delete", NoFrame)
    /\ UNCHANGED Env

\* Faulty variant: a failure of the delete is swallowed and the insert goes
\* ahead.
updateDeleteUnchecked(ok) ==
    /\ pc = "delete"
    /\ LET f == PathFilter(arg.path)
       IN  \/ ok /\ RejectNoTable /\ UNCHANGED table
           \/ /\ initialized
              /\ storeLog' = Append(storeLog, StoreCall("delete", f, 0, ok))
              /\ table' = IF ok THEN StoreDelete(table, f) ELSE table
              /\ Step("add", AddFrame(<<UpdatedEntry(arg.path, arg.content, now)>>, FALSE))
    /\ UNCHANGED <<initialized, dir, now, Call, progressLog, failures>>

\* await dbTable.delete(notepath = filePath); then the timestamp is taken and
\* add is entered with the one new record, without a callback.
updateDelete(ok) ==
    /\ pc = "delete"
    /\ LET f == PathFilter(arg.path)
       IN  \/ ok /\ RejectNoTable /\ UNCHANGED table
           \/ ~ok /\ Reject("delete", f, 0) /\ UNCHANGED table
           \/ /\ ok /\ initialized
              /\ storeLog' = Append(storeLog, StoreCall("delete", f, 0, TRUE))
              /\ table' = StoreDelete(table, f)
              /\ Step("add", AddFrame(<<UpdatedEntry(arg.path, arg.content, now)>>, FALSE))
    /\ UNCHANGED <<initialized, dir, now, Call, progressLog, failures>>

----------------------------------------------------------------------------
(* deleteAllRowsInTable *)

deleteAllRowsInTable ==
    /\ Begin("deleteAll", NoArg)
    /\ Start("deleteNonEmpty", NoFrame)
    /\ UNCHANGED Env

\* try { await db.delete(content != ''): an error, the TypeError of a missing
\* table included, goes to the catch, which logs it, and the function returns.
deleteAllNonEmpty(ok) ==
    /\ pc = "deleteNonEmpty"
    /\ LET f == ContentFilter("!=")
       IN  \/ /\ ok /\ ~initialized
              /\ Return("ok", NoValue)
              /\ UNCHANGED <<storeLog, table>>
           \/ /\ ~ok /\ initialized
              /\ storeLog' = Append(storeLog, StoreCall("delete", f, 0, FALSE))
              /\ Return("ok", NoValue)
              /\ UNCHANGED table
           \/ /\ ok /\ initialized
              /\ storeLog' = Append(storeLog, StoreCall("delete", f, 0, TRUE))
              /\ table' = StoreDelete(table, f)
              /\ Step("deleteEmpty", frame)
    /\ UNCHANGED <<initialized, dir, now, Call, progressLog, failures>>

\* await db.delete(content = '') } catch (error) { console.error(..) }
deleteAllEmpty(ok) ==
    /\ pc = "deleteEmpty"
    /\ LET f == ContentFilter("=")
       IN  /\ storeLog' = Append(storeLog, StoreCall("delete", f, 0, ok))
           /\ table' = IF ok THEN StoreDelete(table, f) ELSE table
           /\ Return("ok", NoValue)
    /\ UNCHANGED <<initialized, dir, now, Call, progressLog, failures>>

----------------------------------------------------------------------------
(* The environment *)

\* The call in flight stops at its await and never resumes.
Stop ==
    /\ ~Idle
    /\ Return("stopped", NoValue)
    /\ UNCHANGED <<Env, Call, storeLog, progressLog, failures>>

\* The clock advances.
Tick ==
    /\ now < MaxTime
    /\ now' = now + 1
    /\ UNCHANGED <<initialized, table, dir, op, pc, arg, frame, storeLog,
                   progressLog, failures, result, retval, atCall, prev>>

\* A file appears in or disappears from the directory (between calls: the
\* listing is read only when a call begins).
DirChange(p) ==
    /\ Idle
    /\ dir' = IF p \in dir THEN dir \ {p} ELSE dir \cup {p}
    /\ UNCHANGED <<initialized, table, now, op, pc, arg, frame, storeLog,
                   progressLog, failures, result, retval, atCall, prev>>

----------------------------------------------------------------------------
(* The orchestration entry points over an initially empty table *)

Init ==
    /\ initialized = FALSE
    /\ table = <<>>
    /\ dir = {}
    /\ now = 0
    /\ op = "none"
    /\ pc = "idle"
    /\ arg = NoArg
    /\ frame = NoFrame
    /\ storeLog = <<>>
    /\ progressLog = <<>>
    /\ failures = 0
    /\ result = "none"
    /\ retval = NoValue
    /\ atCall = NoTable
    /\ prev = NoRun

\* The outcomes of reading up to n files
Reads(n) == UNION {[1..k -> ReadOutcomes] : k \in 0..n}

\* Calls that add rows are made while the table stays within MaxRows rows.
\* The runs are made without a progress callback here; SpecRun, SpecRepair
\* and SpecConverge make them with and without one.
Next ==
    \/ initialize
    \/ \E ok \in BOOLEAN : initializeEmbedding(ok)
    \/ \E ok \in BOOLEAN : initializeTable(ok)
    \/ /\ Idle
       /\ Len(MissingFiles(Listing(dir), table)) + Len(table) <= MaxRows
       /\ maybeRePopulateTable(FALSE)
    \/ \E ok \in BOOLEAN : getTableAsArrayCount(ok)
    \/ \E ok \in BOOLEAN : getTableAsArrayNonEmpty(ok)
    \/ \E ok \in BOOLEAN : getTableAsArrayEmpty(ok)
    \/ /\ pc = "convert"
       /\ \E reads \in Reads(Cardinality(Paths)) :
              \E times \in ClockReadings(Len(reads), now) : convertMissing(reads, times)
    \/ \E ok \in BOOLEAN : addChunk(ok)
    \/ addReturn
    \/ \E ok \in BOOLEAN : finalCountRows(ok)
    \/ /\ Idle
       /\ \E tree \in Trees : \E reads \in [1..Len(tree) -> ReadOutcomes] :
              \E times \in ClockReadings(Len(tree), now) :
                  /\ Len(tree) + Len(table) <= MaxRows
                  /\ addTreeToTable(tree, reads, times)
    \/ \E tree \in Trees : removeTreeFromTable(tree)
    \/ \E ok \in BOOLEAN : removeTreeDelete(ok)
    \/ removeTreeReturn
    \/ /\ Idle
       /\ \E p \in Paths, c \in UpdateContents :
              /\ Len(StoreDelete(table, PathFilter(p))) + 1 <= MaxRows
              /\ updateNoteInTable(p, c)
    \/ \E ok \in BOOLEAN : updateDelete(ok)
    \/ Tick
    \/ \E p \in Paths : DirChange(p)

Spec == Init /\ [][Next]_vars

----------------------------------------------------------------------------
(* add and maybeRePopulateTable on lists of every length up to MaxBulk: the  *)
(* directory holds the files 1..n, and add is given n records.              *)

\* A list of n records, told apart by their note paths 1..n.
BulkRecords(n) ==
    [i \in 1..n |-> [notepath |-> i, content |-> "note", subnoteindex |-> 0,
                     timeadded |-> 0]]

InitBulk ==
    /\ initialized = FALSE
    /\ table = <<>>
    /\ dir \in {1..n : n \in 0..MaxBulk}
    /\ now = 0
    /\ op = "none"
    /\ pc = "idle"
    /\ arg = NoArg
    /\ frame = NoFrame
    /\ storeLog = <<>>
    /\ progressLog = <<>>
    /\ failures = 0
    /\ result = "none"
    /\ retval = NoValue
    /\ atCall = NoTable
    /\ prev = NoRun

\* add is given its list while the table is empty.
NextBulk ==
    \/ initialize
    \/ \E ok \in BOOLEAN : initializeEmbedding(ok)
    \/ \E ok \in BOOLEAN : initializeTable(ok)
    \/ \E cb \in BOOLEAN : table = <<>> /\ add(BulkRecords(Cardinality(dir)), cb)
    \/ \E ok \in BOOLEAN : addChunk(ok)
    \/ addReturn

SpecBulk == InitBulk /\ [][NextBulk]_vars

----------------------------------------------------------------------------
(* Runs of maybeRePopulateTable over long directories, one after the other. *)
(* The directory holds no file, one file, a chunk and one file, or the     *)
(* longest list, all of them readable, and does not change.                *)

RunSizes == {0, 1, chunkSize + 1, MaxBulk}

InitRun ==
    /\ InitBulk
    /\ Cardinality(dir) \in RunSizes

\* The missing files are converted, every one of them readable; the clock
\* goes on as it may while they are read.
convertReadable ==
    /\ pc = "convert"
    /\ LET n == Len(MissingFiles(frame.filesInfoList, frame.tableArray))
       IN  \E times \in ClockReadings(n, now) :
               convertMissing([i \in 1..n |-> [ok |-> TRUE, data |-> "note"]], times)

NextRun ==
    \/ initialize
    \/ \E ok \in BOOLEAN : initializeEmbedding(ok)
    \/ \E ok \in BOOLEAN : initializeTable(ok)
    \/ \E cb \in BOOLEAN : maybeRePopulateTable(cb)
    \/ \E ok \in BOOLEAN : getTableAsArrayCount(ok)
    \/ \E ok \in BOOLEAN : getTableAsArrayNonEmpty(ok)
    \/ \E ok \in BOOLEAN : getTableAsArrayEmpty(ok)
    \/ convertReadable
    \/ \E ok \in BOOLEAN : addChunk(ok)
    \/ addReturn
    \/ \E ok \in BOOLEAN : finalCountRows(ok)

SpecRun == InitRun /\ [][NextRun]_vars

----------------------------------------------------------------------------
(* The facade over a table that the store opens with rows already in it *)

FullRow(p, c) == StoredRow(convertFileTypeToDBType(p, [ok |-> TRUE, data |-> c], 0))

\* Row r without field f, as a table of an older schema holds it.
Without(r, f) == [g \in (DOMAIN r) \ {f} |-> r[g]]

RawRows ==
    {FullRow(p, c) : p \in Paths, c \in {"note", ""}}
        \cup {Without(FullRow(1, "note"), f) : f \in RequiredFields}

RawTables == UNION {[1..n -> RawRows] : n \in 0..MaxRaw}

Filters == {ContentFilter("="), ContentFilter("!=")} \cup {PathFilter(p) : p \in Paths}

Limits == 1..(MaxRaw + 1)

AddInputs == {<<>>, <<convertFileTypeToDBType(2, [ok |-> TRUE, data |-> "note"], 0)>>}

InitFacade ==
    /\ initialized = FALSE
    /\ table \in RawTables
    /\ dir = {}
    /\ now = 0
    /\ op = "none"
    /\ pc = "idle"
    /\ arg = NoArg
    /\ frame = NoFrame
    /\ storeLog = <<>>
    /\ progressLog = <<>>
    /\ failures = 0
    /\ result = "none"
    /\ retval = NoValue
    /\ atCall = NoTable
    /\ prev = NoRun

NextFacade ==
    \/ initialize
    \/ \E ok \in BOOLEAN : initializeEmbedding(ok)
    \/ \E ok \in BOOLEAN : initializeTable(ok)
    \/ \E data \in AddInputs, cb \in BOOLEAN :
           Len(table) + Len(data) <= MaxRaw /\ add(data, cb)
    \/ \E ok \in BOOLEAN : addChunk(ok)
    \/ addReturn
    \/ \E f \in Filters : delete(f)
    \/ \E ok \in BOOLEAN : deleteSettle(ok)
    \/ \E f \in Filters \cup {NoFilter}, n \in Limits : search(f, n)
    \/ searchExecute
    \/ \E ok \in BOOLEAN : searchSettle(ok)
    \/ \E f \in Filters, n \in Limits : filter(f, n)
    \/ \E ok \in BOOLEAN : filterSettle(ok)
    \/ countRows
    \/ \E ok \in BOOLEAN : countRowsSettle(ok)
    \/ \E p \in Paths, n \in 0..(MaxRaw + 1) : isFileInDB(p, n)
    \/ \E ok \in BOOLEAN : isFileInDBSettle(ok)

SpecFacade == InitFacade /\ [][NextFacade]_vars

----------------------------------------------------------------------------
(* Updates that may stop at an await, the runs of maybeRePopulateTable that *)
(* follow them, and resets of the table by deleteAllRowsInTable, from an    *)
(* empty table.                                                             *)

NextRepair ==
    \/ initialize
    \/ \E ok \in BOOLEAN : initializeEmbedding(ok)
    \/ \E ok \in BOOLEAN : initializeTable(ok)
    \/ \E cb \in BOOLEAN : maybeRePopulateTable(cb)
    \/ \E ok \in BOOLEAN : getTableAsArrayCount(ok)
    \/ \E ok \in BOOLEAN : getTableAsArrayNonEmpty(ok)
    \/ \E ok \in BOOLEAN : getTableAsArrayEmpty(ok)
    \/ /\ pc = "convert"
       /\ \E reads \in Reads(Cardinality(Paths)) :
              \E times \in ClockReadings(Len(reads), now) : convertMissing(reads, times)
    \/ \E ok \in BOOLEAN : addChunk(ok)
    \/ addReturn
    \/ \E ok \in BOOLEAN : finalCountRows(ok)
    \/ \E p \in Paths, c \in UpdateContents : updateNoteInTable(p, c)
    \/ \E ok \in BOOLEAN : updateDelete(ok)
    \/ deleteAllRowsInTable
    \/ \E ok \in BOOLEAN : deleteAllNonEmpty(ok)
    \/ \E ok \in BOOLEAN : deleteAllEmpty(ok)
    \/ Stop
    \/ Tick
    \/ \E p \in Paths : DirChange(p)

SpecRepair == Init /\ [][NextRepair]_vars

----------------------------------------------------------------------------
(* Resets of a table that the store opens with rows already in it, rows of  *)
(* an older schema among them.                                              *)

NextReset ==
    \/ initialize
    \/ \E ok \in BOOLEAN : initializeEmbedding(ok)
    \/ \E ok \in BOOLEAN : initializeTable(ok)
    \/ deleteAllRowsInTable
    \/ \E ok \in BOOLEAN : deleteAllNonEmpty(ok)
    \/ \E ok \in BOOLEAN : deleteAllEmpty(ok)

SpecReset == InitFacade /\ [][NextReset]_vars

----------------------------------------------------------------------------
(* Runs of maybeRePopulateTable against a directory that does not change,   *)
(* with every file readable.  Any call may fail any number of times.        *)

ConvergeSizes == {0, 2, chunkSize + 1}

InitConverge ==
    /\ initialized = FALSE
    /\ table = <<>>
    /\ dir \in {1..n : n \in ConvergeSizes}
    /\ now = 0
    /\ op = "none"
    /\ pc = "idle"
    /\ arg = NoArg
    /\ frame = NoFrame
    /\ storeLog = <<>>
    /\ progressLog = <<>>
    /\ failures = 0
    /\ result = "none"
    /\ retval = NoValue
    /\ atCall = NoTable
    /\ prev = NoRun

NextConverge ==
    \/ initialize
    \/ \E ok \in BOOLEAN : initializeEmbedding(ok)
    \/ \E ok \in BOOLEAN : initializeTable(ok)
    \/ \E cb \in BOOLEAN : maybeRePopulateTable(cb)
    \/ \E ok \in BOOLEAN : getTableAsArrayCount(ok)
    \/ \E ok \in BOOLEAN : getTableAsArrayNonEmpty(ok)
    \/ \E ok \in BOOLEAN : getTableAsArrayEmpty(ok)
    \/ convertReadable
    \/ \E ok \in BOOLEAN : addChunk(ok)
    \/ addReturn
    \/ \E ok \in BOOLEAN : finalCountRows(ok)

\* The steps that resume a call in flight
ProceedConverge ==
    \/ \E ok \in BOOLEAN : initializeEmbedding(ok)
    \/ \E ok \in BOOLEAN : initializeTable(ok)
    \/ \E ok \in BOOLEAN : getTableAsArrayCount(ok)
    \/ \E ok \in BOOLEAN : getTableAsArrayNonEmpty(ok)
    \/ \E ok \in BOOLEAN : getTableAsArrayEmpty(ok)
    \/ convertReadable
    \/ \E ok \in BOOLEAN : addChunk(ok)
    \/ addReturn
    \/ \E ok \in BOOLEAN : finalCountRows(ok)

\* What an await waits for settles, one way or the other, and the function
\* that awaits it is resumed.  Nothing makes a call succeed, and nothing
\* makes the caller begin another run.
FairConverge == WF_vars(ProceedConverge)

SpecConverge == InitConverge /\ [][NextConverge]_vars /\ FairConverge

----------------------------------------------------------------------------
(* Calls that overlap.  Two calls are made, on a table that is initialized   *)
(* or not, and run between their awaits in any order.  Here op, pc, arg,    *)
(* frame, progressLog, failures, result and retval hold one value per call, *)
(* and storeLog holds the store calls of both in the order they settled.  A *)
(* call runs without interruption from one await to the next: a call runs   *)
(* to its first await when it is made, and the settling of what it awaits   *)
(* resumes it up to the next one.  The store applies a call when it         *)
(* settles, and may settle the calls in flight in any order, the order they *)
(* were issued in included.  frame[id].inFlight lists the chunks of call id *)
(* whose write is issued and not settled; a call at "delete", "execute" or  *)
(* "countRows" has that store call in flight, a call at "search" or at      *)
(* "deleteThrown" has yielded with nothing issued.                          *)

Calls == {1, 2}

AsyncTables == {<<>>, <<FullRow(1, "note")>>, <<FullRow(1, "note"), FullRow(2, "note")>>}

AsyncAddInputs == {BulkRecords(0), BulkRecords(MaxBulk)}

\* A store call of call id, settled; for a chunk write k is the chunk's index.
SettledCall(id, c, k, ok) == [by |-> id, call |-> c, chunk |-> k, ok |-> ok]

\* Faulty variant: the writes are not awaited one by one, every remaining
\* chunk is issued at once.
IssueAll(f) ==
    [f EXCEPT !.inFlight = @ \o [k \in 1..(Len(f.chunks) - f.index - Len(@)) |->
                                     f.index + Len(@) + k]]

\* for (const chunk of chunks) { try { await this.table.add(chunk) ...: the
\* loop issues the write of the next chunk, if there is one, and awaits it.
IssueNext(f) ==
    IF f.index < Len(f.chunks)
    THEN [f EXCEPT !.inFlight = Append(@, f.index + 1)]
    ELSE f

\* Call id goes on in add with locals f: it awaits a write, or the loop is
\* over and it returns.
Resume(id, f) ==
    /\ frame' = [frame EXCEPT ![id] = f]
    /\ pc' = [pc EXCEPT ![id] = IF f.inFlight = <<>> THEN "done" ELSE "add"]
    /\ result' = [result EXCEPT ![id] = IF f.inFlight = <<>> THEN "ok" ELSE "none"]

\* Call id is made: entry point o with arguments a.
asyncBegin(id, o, a) ==
    /\ pc[id] = "idle"
    /\ op' = [op EXCEPT ![id] = o]
    /\ arg' = [arg EXCEPT ![id] = a]

\* Call id is at its next await, or has ended with r.
asyncGoto(id, label, r) ==
    /\ pc' = [pc EXCEPT ![id] = label]
    /\ result' = [result EXCEPT ![id] = r]

\* Without a table every this.table.add(chunk) throws a TypeError inside the
\* try: nothing is awaited, and the loop runs through all chunks at the call,
\* reporting the progress of each.
ProgressOfAll(cb, totalChunks) ==
    IF cb THEN [k \in 1..totalChunks |-> Progress(k, totalChunks)] ELSE <<>>

asyncAdd(id, data, cb) ==
    /\ asyncBegin(id, "add", [NoArg EXCEPT !.data = data, !.onProgress = cb])
    /\ IF initialized
       THEN /\ Resume(id, IssueNext(AddFrame(data, cb)))
            /\ UNCHANGED <<progressLog, failures>>
       ELSE /\ Resume(id, [AddFrame(data, cb) EXCEPT !.index = Len(Chunks(data))])
            /\ progressLog' = [progressLog EXCEPT ![id] =
                                  ProgressOfAll(cb, Len(Chunks(data)))]
            /\ failures' = [failures EXCEPT ![id] = Len(Chunks(data))]
    /\ UNCHANGED <<Env, storeLog, retval, atCall, prev>>

\* The write in flight settles: the catch swallows a failure, index++, the
\* progress callback, and the next pass of the loop.
asyncAddSettle(id, ok) ==
    /\ pc[id] = "add"
    /\ frame[id].inFlight # <<>>
    /\ LET f == frame[id]
           k == Head(f.inFlight)
           next == NextIndex(ok, f.index, Len(f.chunks))
       IN  /\ storeLog' = Append(storeLog, SettledCall(id, "add", k, ok))
           /\ table' = IF ok THEN table \o StoredRows(f.chunks[k]) ELSE table
           /\ progressLog' = [progressLog EXCEPT ![id] =
                                 Report(@, f.onProgress, Progress(next, Len(f.chunks)))]
           /\ failures' = [failures EXCEPT ![id] = IF ok THEN @ ELSE @ + 1]
           /\ Resume(id, IssueNext([f EXCEPT !.index = next, !.inFlight = Tail(@)]))
    /\ UNCHANGED <<initialized, dir, now, op, arg, retval, atCall, prev>>

\* updateNoteInTable is called: dbTable.delete is called and its promise
\* awaited.  With a table the delete is issued; without one the promise is
\* already rejected with a TypeError, nothing is issued, and the await yields
\* all the same.
asyncUpdate(id, filePath, content) ==
    /\ asyncBegin(id, "update", [NoArg EXCEPT !.path = filePath, !.content = content])
    /\ asyncGoto(id, IF initialized THEN "delete" ELSE "deleteThrown", "none")
    /\ UNCHANGED <<Env, frame, storeLog, progressLog, failures, retval, atCall, prev>>

\* The await of a delete that threw at the call resumes: the TypeError
\* propagates, whatever the table has become meanwhile.
asyncUpdateThrown(id) ==
    /\ pc[id] = "deleteThrown"
    /\ asyncGoto(id, "done", "TypeError")
    /\ UNCHANGED <<Env, op, arg, frame, storeLog, progressLog, failures, retval,
                   atCall, prev>>

\* Faulty variant: the record is inserted only for a path whose delete
\* removed a row.
asyncUpdateSettleOfIndexed(id, ok) ==
    /\ op[id] = "update"
    /\ pc[id] = "delete"
    /\ storeLog' = Append(storeLog, SettledCall(id, "delete", 0, ok))
    /\ IF ok
       THEN /\ table' = StoreDelete(table, PathFilter(arg[id].path))
            /\ Resume(id, IF RowsOf(table, arg[id].path) = <<>>
                          THEN AddFrame(<<>>, FALSE)
                          ELSE IssueNext(AddFrame(
                                   <<UpdatedEntry(arg[id].path, arg[id].content, now)>>,
                                   FALSE)))
       ELSE /\ pc' = [pc EXCEPT ![id] = "done"]
            /\ result' = [result EXCEPT ![id] = "StoreError"]
            /\ UNCHANGED <<table, frame>>
    /\ UNCHANGED <<initialized, dir, now, op, arg, progressLog, failures, retval,
                   atCall, prev>>

\* The delete settles: a failure propagates, otherwise the timestamp is taken
\* and add is entered with the one new record.
asyncUpdateSettle(id, ok) ==
    /\ op[id] = "update"
    /\ pc[id] = "delete"
    /\ storeLog' = Append(storeLog, SettledCall(id, "delete", 0, ok))
    /\ IF ok
       THEN /\ table' = StoreDelete(table, PathFilter(arg[id].path))
            /\ Resume(id, IssueNext(AddFrame(
                       <<UpdatedEntry(arg[id].path, arg[id].content, now)>>, FALSE)))
       ELSE /\ pc' = [pc EXCEPT ![id] = "done"]
            /\ result' = [result EXCEPT ![id] = "StoreError"]
            /\ UNCHANGED <<table, frame>>
    /\ UNCHANGED <<initialized, dir, now, op, arg, progressLog, failures, retval,
                   atCall, prev>>

\* initialize is called and awaits createEmbeddingFunction.
asyncInitialize(id) ==
    /\ asyncBegin(id, "initialize", NoArg)
    /\ asyncGoto(id, "createEmbedding", "none")
    /\ UNCHANGED <<Env, frame, storeLog, progressLog, failures, retval, atCall, prev>>

\* createEmbeddingFunction settles: the three fields are assigned and
\* GetOrCreateLanceTable is awaited, this.table still being what it was.
asyncInitializeEmbedding(id, ok) ==
    /\ pc[id] = "createEmbedding"
    /\ IF ok THEN asyncGoto(id, "openTable", "none")
             ELSE asyncGoto(id, "done", "EmbeddingError")
    /\ UNCHANGED <<Env, op, arg, frame, storeLog, progressLog, failures, retval,
                   atCall, prev>>

\* GetOrCreateLanceTable settles: this.table is assigned.
asyncInitializeTable(id, ok) ==
    /\ pc[id] = "openTable"
    /\ asyncGoto(id, "done", IF ok THEN "ok" ELSE "StoreError")
    /\ initialized' = (initialized \/ ok)
    /\ UNCHANGED <<table, dir, now, op, arg, frame, storeLog, progressLog, failures,
                   retval, atCall, prev>>

\* A call of delete, search, filter or countRows.  Each evaluates this.table
\* at the call, a TypeError without a table.  delete, filter and countRows
\* issue their store call at the call; search awaits the query it has built,
\* which is no promise, and so yields with nothing issued.
asyncFacade(id, o, f, limit) ==
    /\ asyncBegin(id, o, [NoArg EXCEPT !.filter = f, !.limit = limit])
    /\ IF ~initialized THEN asyncGoto(id, "done", "TypeError")
       ELSE asyncGoto(id, CASE o = "delete" -> "delete"
                            [] o = "search" -> "search"
                            [] o = "filter" -> "execute"
                            [] o = "countRows" -> "countRows", "none")
    /\ UNCHANGED <<Env, frame, storeLog, progressLog, failures, retval, atCall, prev>>

\* search resumes after its first await: the filter, if any, is set and the
\* query is issued to the store.
asyncSearchExecute(id) ==
    /\ pc[id] = "search"
    /\ asyncGoto(id, "execute", "none")
    /\ UNCHANGED <<Env, op, arg, frame, storeLog, progressLog, failures, retval,
                   atCall, prev>>

\* The query of search or filter settles: its rows are mapped and returned.
asyncQuerySettle(id, ok) ==
    /\ pc[id] = "execute"
    /\ storeLog' = Append(storeLog, SettledCall(id, "search", 0, ok))
    /\ asyncGoto(id, "done", IF ok THEN "ok" ELSE "StoreError")
    /\ IF ok
       THEN \E raw \in StoreQuery(table, arg[id].filter, arg[id].limit) :
                retval' = [retval EXCEPT ![id] = [NoValue EXCEPT !.rows = MapResults(raw)]]
       ELSE retval' = [retval EXCEPT ![id] = NoValue]
    /\ UNCHANGED <<Env, op, arg, frame, progressLog, failures, atCall, prev>>

\* The delete of a call of delete settles.
asyncDeleteSettle(id, ok) ==
    /\ op[id] = "delete"
    /\ pc[id] = "delete"
    /\ storeLog' = Append(storeLog, SettledCall(id, "delete", 0, ok))
    /\ table' = IF ok THEN StoreDelete(table, arg[id].filter) ELSE table
    /\ asyncGoto(id, "done", IF ok THEN "ok" ELSE "StoreError")
    /\ UNCHANGED <<initialized, dir, now, op, arg, frame, progressLog, failures,
                   retval, atCall, prev>>

\* The countRows of a call of countRows settles.
asyncCountSettle(id, ok) ==
    /\ pc[id] = "countRows"
    /\ storeLog' = Append(storeLog, SettledCall(id, "countRows", 0, ok))
    /\ asyncGoto(id, "done", IF ok THEN "ok" ELSE "StoreError")
    /\ retval' = [retval EXCEPT ![id] =
                     IF ok THEN [NoValue EXCEPT !.count = Len(table)] ELSE NoValue]
    /\ UNCHANGED <<Env, op, arg, frame, progressLog, failures, atCall, prev>>

\* A limit that covers the table, whatever the two calls add to it
AsyncLimit == MaxRaw + 2 * MaxBulk

AsyncQueries == {<<"delete", f, 0>> : f \in {PathFilter(1), ContentFilter("!=")}}
                   \cup {<<"countRows", NoFilter, 0>>}
                   \cup {<<o, f, AsyncLimit>> : o \in {"search", "filter"},
                                                f \in {NoFilter, PathFilter(1)}}

InitAsync ==
    /\ initialized \in BOOLEAN
    /\ table \in AsyncTables
    /\ dir = {}
    /\ now = 0
    /\ op = [id \in Calls |-> "none"]
    /\ pc = [id \in Calls |-> "idle"]
    /\ arg = [id \in Calls |-> NoArg]
    /\ frame = [id \in Calls |-> NoFrame]
    /\ storeLog = <<>>
    /\ progressLog = [id \in Calls |-> <<>>]
    /\ failures = [id \in Calls |-> 0]
    /\ result = [id \in Calls |-> "none"]
    /\ retval = [id \in Calls |-> NoValue]
    /\ atCall = NoTable
    /\ prev = NoRun

NextAsync ==
    \/ \E id \in Calls : asyncInitialize(id)
    \/ \E id \in Calls, ok \in BOOLEAN : asyncInitializeEmbedding(id, ok)
    \/ \E id \in Calls, ok \in BOOLEAN : asyncInitializeTable(id, ok)
    \/ \E id \in Calls, q \in AsyncQueries : asyncFacade(id, q[1], q[2], q[3])
    \/ \E id \in Calls : asyncSearchExecute(id)
    \/ \E id \in Calls, ok \in BOOLEAN : asyncQuerySettle(id, ok)
    \/ \E id \in Calls, ok \in BOOLEAN : asyncDeleteSettle(id, ok)
    \/ \E id \in Calls, ok \in BOOLEAN : asyncCountSettle(id, ok)
    \/ \E id \in Calls, data \in AsyncAddInputs, cb \in BOOLEAN : asyncAdd(id, data, cb)
    \/ \E id \in Calls, ok \in BOOLEAN : asyncAddSettle(id, ok)
    \/ \E id \in Calls, p \in Paths, c \in UpdateContents : asyncUpdate(id, p, c)
    \/ \E id \in Calls : asyncUpdateThrown(id)
    \/ \E id \in Calls, ok \in BOOLEAN : asyncUpdateSettle(id, ok)
    \/ Tick

SpecAsync == InitAsync /\ [][NextAsync]_vars

----------------------------------------------------------------------------
(* Properties of the batch writer, checked under SpecBulk *)

CeilDiv(n, d) == (n + d - 1) \div d

RECURSIVE Flatten(_)
Flatten(seqs) == IF seqs = <<>> THEN <<>> ELSE Head(seqs) \o Flatten(Tail(seqs))

Increasing(log) == \A k \in 1..(Len(log) - 1) : Less(log[k], log[k + 1])

AddDone == op = "add" /\ pc = "done" /\ initialized

\* C1: add on an initialized table splits its N records into contiguous chunks
\* of at most 50, issues exactly ceil(N/50) store writes (the k-th of the k-th
\* chunk's size), and with a callback reports exactly ceil(N/50) strictly
\* increasing fractions, the last one 1; nothing is issued or reported for N = 0.
C1_Chunking ==
    /\ (op = "add" /\ pc = "add") =>
          /\ Flatten(frame.chunks) = arg.data
          /\ \A k \in 1..Len(frame.chunks) : Len(frame.chunks[k]) \in 1..chunkSize
    /\ AddDone =>
          LET N == Len(arg.data)
              M == CeilDiv(N, chunkSize)
          IN  /\ Len(storeLog) = M
              /\ WriteCalls(storeLog) = M
              /\ \A k \in 1..M : storeLog[k].n = Min(chunkSize, N - chunkSize * (k - 1))
              /\ IF arg.onProgress
                 THEN /\ Len(progressLog) = M
                      /\ Increasing(progressLog)
                      /\ M > 0 => IsOne(progressLog[M])
                 ELSE progressLog = <<>>

C1_Witness ==
    /\ AddDone
    /\ Len(arg.data) = 2 * chunkSize + 1
    /\ arg.onProgress
    /\ Len(progressLog) = 3
    /\ WriteCalls(storeLog) = 3

\* C2: when the store write of a chunk fails, the later chunks are still
\* written (the number of store writes is the number of chunks whichever
\* writes fail), and the callback is invoked after the failed chunk as after a
\* successful one.
C2_FaultIsolation ==
    /\ (op = "add" /\ pc = "add" /\ initialized) =>
          /\ WriteCalls(storeLog) = frame.index
          /\ arg.onProgress => Len(progressLog) = frame.index
    /\ AddDone =>
          LET M == CeilDiv(Len(arg.data), chunkSize)
          IN  \A k \in 1..Len(storeLog) :
                  ~storeLog[k].ok =>
                      /\ WriteCalls(storeLog) = M
                      /\ arg.onProgress =>
                            /\ Len(progressLog) = M
                            /\ progressLog[k] = Progress(k, M)

C2_Witness ==
    /\ AddDone
    /\ arg.onProgress
    /\ Len(storeLog) = 3
    /\ ~storeLog[1].ok
    /\ storeLog[2].ok
    /\ ~storeLog[3].ok
    /\ Len(progressLog) = 3
    /\ Len(table) = chunkSize

\* C15: on an initialized table add never fails, whichever chunk writes
\* fail: it returns normally and without a value; when every write failed the
\* table has gained no row and the reports still end at 1, as after a call
\* whose writes all succeeded.
C15_AddNeverThrows ==
    /\ (op = "add" /\ initialized) => result \in {"none", "ok"}
    /\ AddDone =>
          /\ result = "ok"
          /\ retval = NoValue
          /\ failures = Len(storeLog) =>
                /\ Len(table) = atCall.rows
                /\ (arg.onProgress /\ arg.data # <<>>) =>
                       IsOne(progressLog[Len(progressLog)])

C15_Witness ==
    /\ AddDone
    /\ result = "ok"
    /\ Len(arg.data) = MaxBulk
    /\ arg.onProgress
    /\ failures = 3
    /\ \A k \in 1..Len(storeLog) : ~storeLog[k].ok
    /\ table = <<>>
    /\ progressLog = <<Progress(1, 3), Progress(2, 3), Progress(3, 3)>>

----------------------------------------------------------------------------
(* Properties of the runs over long directories, checked under SpecRun *)

RunDone == op = "repopulate" /\ pc = "done" /\ result = "ok"

\* C10: with a callback, the reports of a completed maybeRePopulateTable run
\* are the chunk reports of add followed by one last report of 1; when no file
\* is missing that last report is the only one.
C10_FinalProgress ==
    (RunDone /\ arg.onProgress) =>
        LET M == WriteCalls(storeLog)
        IN  /\ Len(progressLog) = M + 1
            /\ progressLog[M + 1] = One
            /\ \A k \in 1..M : progressLog[k] = Progress(k, M)
            /\ M = 0 => progressLog = <<One>>

C10_Witness ==
    /\ RunDone
    /\ arg.onProgress
    /\ Len(atCall.listing) > chunkSize
    /\ atCall.rows = Len(atCall.listing)
    /\ WriteCalls(storeLog) = 0
    /\ progressLog = <<One>>

\* C10, second case: a run that writes three chunks reports 1/3, 2/3, 3/3, 1.
C10_ThreeChunks ==
    /\ RunDone
    /\ arg.onProgress
    /\ progressLog = <<Progress(1, 3), Progress(2, 3), Progress(3, 3), One>>

----------------------------------------------------------------------------
(* Properties of the orchestration entry points, checked under Spec *)

\* The run in progress or just completed follows a completed run, with no
\* other call between them, and lists the same files as that run.
SecondRun == RunDone /\ prev.op = "repopulate" /\ prev.listing = atCall.listing

\* C3, as stated: the second of two runs in a row against an unchanged
\* directory issues no store write.
C3_Idempotent == SecondRun => WriteCalls(storeLog) = 0

\* The listed files that had no row when the run began (a run only adds rows)
AbsentAtCall ==
    SelectSeq(atCall.listing,
              LAMBDA p : \A j \in 1..atCall.rows :
                             "notepath" \in DOMAIN table[j] => table[j].notepath # p)

\* The numbers of records of the chunk writes among the store calls of log
WriteSizes(log) ==
    LET writes == SelectSeq(log, LAMBDA c : c.call = "add")
    IN  [k \in 1..Len(writes) |-> writes[k].n]

\* The sizes of the chunks a list of n records is written in
SizesOfChunks(n) ==
    [k \in 1..((n + chunkSize - 1) \div chunkSize) |->
        IF k * chunkSize <= n THEN chunkSize ELSE n - (k - 1) * chunkSize]

\* C3, amended: the second of two runs in a row against an unchanged directory
\* issues no store write when no chunk write of the first run failed; when
\* one failed it issues store writes again.  Either way it writes the listed
\* files that have no row, in chunks of up to 50, and nothing else.
C3_IdempotentAfterCleanRun ==
    SecondRun =>
        /\ (prev.failures = 0) <=> (WriteCalls(storeLog) = 0)
        /\ WriteSizes(storeLog) = SizesOfChunks(Len(AbsentAtCall))
        /\ failures = 0 =>
              \A i \in 1..Len(AbsentAtCall) :
                  Len(RowsOf(table, AbsentAtCall[i])) = 1

C3_Witness ==
    /\ SecondRun
    /\ prev.failures = 0
    /\ prev.rows = 0
    /\ Len(prev.listing) = 2
    /\ \E i \in 1..Len(table) : table[i].content = ""
    /\ storeLog = <<StoreCall("countRows", NoFilter, 0, TRUE),
                    StoreCall("search", ContentFilter("!="), 2, TRUE),
                    StoreCall("search", ContentFilter("="), 2, TRUE),
                    StoreCall("countRows", NoFilter, 0, TRUE)>>

\* C4: after a run that completes with no chunk write failure, isFileInDB is
\* true of every file the run listed, whatever the table held before.
C4_Complete ==
    (RunDone /\ failures = 0) =>
        \A i \in 1..Len(atCall.listing) :
            IsFileInDB(table, atCall.listing[i], Len(table)) = {TRUE}

C4_Witness ==
    /\ RunDone
    /\ failures = 0
    /\ atCall.listing = <<1, 2>>
    /\ atCall.rows = 1
    /\ WriteCalls(storeLog) = 1
    /\ Len(table) = 2
    /\ IsFileInDB(table, 1, Len(table)) = {TRUE}
    /\ IsFileInDB(table, 2, Len(table)) = {TRUE}

UpdateDone == op = "update" /\ pc = "done" /\ result = "ok"

\* C5, as stated: after updateNoteInTable returns there is exactly one row for
\* the path, with the new content and a timestamp later than that of every
\* row the path had before.
C5_Update ==
    UpdateDone =>
        LET rows == RowsOf(table, arg.path)
        IN  /\ Len(rows) = 1
            /\ rows[1].content = arg.content
            /\ \A i \in 1..Len(atCall.prior) : rows[1].timeadded > atCall.prior[i]

\* C5, amended: after updateNoteInTable returns, if the store write of its
\* insert succeeded there is exactly one row for the path, with the new content
\* and a timestamp not earlier than that of any row the path had before; if
\* that write failed there is no row for the path.
C5_UpdateUnlessWriteFails ==
    UpdateDone =>
        LET rows == RowsOf(table, arg.path)
        IN  IF failures = 0
            THEN /\ Len(rows) = 1
                 /\ rows[1].content = arg.content
                 /\ \A i \in 1..Len(atCall.prior) : rows[1].timeadded >= atCall.prior[i]
            ELSE rows = <<>>

C5_Witness ==
    /\ UpdateDone
    /\ failures = 0
    /\ Len(atCall.prior) = 2
    /\ Len(RowsOf(table, arg.path)) = 1
    /\ RowsOf(table, arg.path)[1].content = "edit"
    /\ RowsOf(table, arg.path)[1].timeadded > atCall.prior[1]

\* C6: no two rows of the table have the same (notepath, subnoteindex) pair.
C6_UniqueRows ==
    \A i, j \in 1..Len(table) :
        (i # j) => <<table[i].notepath, table[i].subnoteindex>>
                       # <<table[j].notepath, table[j].subnoteindex>>

\* C7: from an empty table and the files a.md and b.md a run leaves two rows;
\* with a.md gone from the directory the next run leaves one row and none for
\* a.md.
C7_StaleRowsRemoved ==
    /\ (RunDone /\ failures = 0 /\ atCall.rows = 0 /\ atCall.listing = <<1, 2>>) =>
          Len(table) = 2
    /\ (/\ RunDone
        /\ atCall.listing = <<2>>
        /\ prev.op = "repopulate"
        /\ prev.failures = 0
        /\ prev.rows = 0
        /\ prev.listing = <<1, 2>>) =>
          /\ Len(table) = 1
          /\ IsFileInDB(table, 1, Len(table)) = {FALSE}

\* The first n files of tree
FirstFiles(tree, n) == {tree[k] : k \in 1..n}

\* C14: removeTreeFromTable issues one delete by path equality per file of
\* the tree, in list order, and stops at the first that fails: the rows of
\* the files before it are gone, no later delete is issued, and every other
\* row, of the tree or not, is in the table as it was.
C14_RemoveTreeNoRollback ==
    (op = "removeTree" /\ result \in {"none", "ok", "StoreError"}) =>
        LET tree == arg.data
            n == Len(storeLog)
            deleted == IF n > 0 /\ ~storeLog[n].ok THEN n - 1 ELSE n
        IN  /\ n <= Len(tree)
            /\ \A k \in 1..n :
                   /\ storeLog[k].call = "delete"
                   /\ storeLog[k].filter = PathFilter(tree[k])
                   /\ k < n => storeLog[k].ok
            /\ table = SelectSeq(atCall.table,
                                 LAMBDA r : r.notepath \notin FirstFiles(tree, deleted))
            /\ (pc = "done" /\ result = "ok") => deleted = Len(tree)
            /\ (pc = "done") => (deleted < n \/ n = Len(tree))
            /\ (deleted < n) <=> (pc = "done" /\ result = "StoreError")

C14_Witness ==
    /\ op = "removeTree"
    /\ pc = "done"
    /\ result = "StoreError"
    /\ arg.data = <<1, 2>>
    /\ Len(storeLog) = 2
    /\ storeLog[1].ok
    /\ ~storeLog[2].ok
    /\ Len(atCall.table) = 2
    /\ Len(RowsOf(atCall.table, 1)) = 1
    /\ Len(table) = 1
    /\ RowsOf(table, 1) = <<>>

----------------------------------------------------------------------------
(* Properties of the facade, checked under SpecFacade *)

FacadeOps == {"add", "delete", "search", "filter", "countRows"}

\* C8: an operation other than initialize that is invoked before initialize
\* fails with an error and issues no store call.
C8_NotInitialized ==
    (pc = "done" /\ ~initialized /\ op \in FacadeOps) =>
        /\ result \notin {"none", "ok"}
        /\ storeLog = <<>>

\* The table holds a row whose notepath is path p.
HoldsPath(p) ==
    \E j \in 1..Len(table) : "notepath" \in DOMAIN table[j] /\ table[j].notepath = p

\* C17: isFileInDB with a row count of 0 returns false and issues no store
\* call; with another count it issues exactly one query, filtered on equality
\* of notepath with the path and limited to the count, and returns true
\* exactly when the query returns at least one row: every row returned is a
\* row of the table with that path, so true is returned only of a path the
\* table holds, and of every such path when the count covers the table.
\* (On a RagnoteTable without a table nothing is issued and the call fails.)
C17_IsFileInDB ==
    /\ (op = "isFileInDB" /\ pc = "fileRows") =>
          /\ arg.limit # 0
          /\ storeLog = <<>>
    /\ (op = "isFileInDB" /\ pc = "done") =>
          IF arg.limit = 0
          THEN /\ storeLog = <<>>
               /\ result = "ok"
               /\ ~retval.found
          ELSE IF ~initialized
          THEN /\ storeLog = <<>>
               /\ result = "TypeError"
          ELSE   /\ Len(storeLog) = 1
                 /\ storeLog[1].call = "search"
                 /\ storeLog[1].filter =
                        [field |-> "notepath", cmp |-> "=", path |-> arg.path, text |-> ""]
                 /\ storeLog[1].n = arg.limit
                 /\ storeLog[1].ok <=> (result = "ok")
                 /\ result = "ok" =>
                       /\ retval.found <=> (Len(retval.rows) > 0)
                       /\ Len(retval.rows) <= arg.limit
                       /\ \A i \in 1..Len(retval.rows) :
                              \E j \in 1..Len(table) :
                                  /\ "notepath" \in DOMAIN table[j]
                                  /\ table[j].notepath = arg.path
                                  /\ retval.rows[i] \in {table[j], Null}
                       /\ retval.found => HoldsPath(arg.path)
                       /\ (arg.limit >= Len(table)) =>
                              (retval.found <=> HoldsPath(arg.path))

C17_Witness ==
    /\ op = "isFileInDB"
    /\ pc = "done"
    /\ result = "ok"
    /\ arg.path = 2
    /\ arg.limit = 2
    /\ Len(table) = 2
    /\ Len(retval.rows) = 1
    /\ retval.found

WellFormed(row) == RequiredFields \subseteq DOMAIN row

\* C9: search and filter return the well-formed rows among those the store
\* gave and nothing else: no null, no row lacking a required field.
C9_OnlyWellFormed ==
    (pc = "done" /\ op \in {"search", "filter"} /\ result = "ok") =>
        /\ \A i \in 1..Len(retval.rows) :
               retval.rows[i] # Null /\ WellFormed(retval.rows[i])
        /\ \E raw \in StoreQuery(table, arg.filter, arg.limit) :
               Len(retval.rows) = Cardinality({i \in 1..Len(raw) : WellFormed(raw[i])})

----------------------------------------------------------------------------
(* Properties of overlapping calls, checked under SpecAsync *)

\* The chunk writes of call id that have settled, in the order they settled
WritesBy(id) == SelectSeq(storeLog, LAMBDA c : c.by = id /\ c.call = "add")

\* C11: within one call of add at most one chunk write is in flight; the
\* writes settle in input order (the k-th to settle is chunk k); and the write
\* in flight is of the chunk after the last settled one, issued only once that
\* one has settled and its progress has been reported.
C11_OneWriteInFlight ==
    \A id \in Calls :
        LET f == frame[id]
            writes == WritesBy(id)
        IN  /\ Len(f.inFlight) <= 1
            /\ \A k \in 1..Len(writes) : writes[k].chunk = k
            /\ f.inFlight # <<>> =>
                  /\ f.inFlight[1] = Len(writes) + 1
                  /\ f.index = Len(writes)
                  /\ f.onProgress => Len(progressLog[id]) = Len(writes)

C11_Witness ==
    /\ op[1] = "add"
    /\ Len(frame[1].chunks) = 3
    /\ frame[1].onProgress
    /\ frame[1].inFlight = <<3>>
    /\ Len(WritesBy(1)) = 2
    /\ ~WritesBy(1)[2].ok
    /\ progressLog[1] = <<Progress(1, 3), Progress(2, 3)>>
    /\ pc[2] = "add"

\* Both calls are updates of the same path, both have returned, and every
\* store call of theirs succeeded.
TwoUpdatesDone ==
    /\ \A id \in Calls : op[id] = "update" /\ pc[id] = "done" /\ result[id] = "ok"
    /\ arg[1].path = arg[2].path
    /\ \A k \in 1..Len(storeLog) : storeLog[k].ok

\* The store calls settled in the order delete, delete, insert, insert.
DeletesThenInserts ==
    [k \in 1..Len(storeLog) |-> storeLog[k].call] = <<"delete", "delete", "add", "add">>

\* C18: two updateNoteInTable calls for the same path whose store calls
\* settle as delete, delete, insert, insert leave two rows for the path; when
\* the delete and the insert of one call both settle before those of the
\* other, as they do when the calls do not overlap, they leave one row.
C18_UpdateRace ==
    TwoUpdatesDone =>
        Len(RowsOf(table, arg[1].path)) = IF DeletesThenInserts THEN 2 ELSE 1

C18_Witness ==
    /\ TwoUpdatesDone
    /\ DeletesThenInserts
    /\ [k \in 1..Len(storeLog) |-> storeLog[k].by] = <<1, 2, 1, 2>>
    /\ arg[1].path = 1
    /\ Len(table) = 2
    /\ Len(RowsOf(table, 1)) = 2
    /\ \A i \in 1..2 : table[i].content = "edit"

----------------------------------------------------------------------------
(* Properties of the reset of the table, checked under SpecReset *)

----------------------------------------------------------------------------
(* Properties of repeated runs, checked under SpecConverge *)

\* The table as it was when the call in flight began (a run only adds rows).
TableAtCall == SubSeq(table, 1, atCall.rows)

NotePaths(records) == [i \in 1..Len(records) |-> records[i].notepath]

AllListedPresent == \A p \in dir : RowsOf(table, p) # <<>>

\* A run attempts exactly the listed files that had no row when it began.
AttemptsTheAbsent ==
    (op = "repopulate" /\ pc = "add") =>
        NotePaths(Flatten(frame.chunks)) =
            SelectSeq(atCall.listing, LAMBDA p : RowsOf(TableAtCall, p) = <<>>)

\* A step gives a row only to a path that had none.
NoSecondRow ==
    \A p \in dir : Len(RowsOf(table', p)) > Len(RowsOf(table, p)) => RowsOf(table, p) = <<>>

\* A run has just been begun.
RunBegun == op = "repopulate" /\ pc = "getTableAsArray"

----------------------------------------------------------------------------
(* Properties of interrupted updates, checked under SpecRepair *)

\* updateNoteInTable is between its delete, which succeeded, and its insert,
\* in flight or stopped there.
BetweenDeleteAndInsert ==
    /\ op = "update"
    /\ storeLog = <<StoreCall("delete", PathFilter(arg.path), 0, TRUE)>>

\* The delete of updateNoteInTable failed and the error reached the caller.
DeleteFailed == op = "update" /\ pc = "done" /\ result = "StoreError"

\* A completed run follows an update of a listed path that stopped between
\* its delete and its insert.
RunAfterStoppedUpdate ==
    /\ RunDone
    /\ prev.op = "update"
    /\ \E i \in 1..Len(atCall.listing) : atCall.listing[i] = prev.listing[1]

\* C13, as stated: between the delete and the insert of updateNoteInTable, and
\* after its delete failed (the error propagates, no insert is attempted),
\* the table holds no row for the path; a later run of maybeRePopulateTable
\* that lists the path leaves exactly one row for it.
C13_NotAtomic ==
    /\ (BetweenDeleteAndInsert \/ DeleteFailed) => RowsOf(table, arg.path) = <<>>
    /\ DeleteFailed => WriteCalls(storeLog) = 0
    /\ RunAfterStoppedUpdate => Len(RowsOf(table, prev.listing[1])) = 1

\* C13, amended: between the delete and the insert the table holds no row for
\* the path.  After a failed delete the error propagates and that delete is
\* the only store call made: no insert is attempted, and the rows the path
\* had are in the table as the delete left them.  A later run that lists a
\* path left without a row leaves exactly one row for it when its chunk write
\* succeeds, and none when that write fails.
C13_NotAtomicDeleteFailureKeepsRows ==
    /\ BetweenDeleteAndInsert => RowsOf(table, arg.path) = <<>>
    /\ DeleteFailed =>
          /\ storeLog = <<StoreCall("delete", PathFilter(arg.path), 0, FALSE)>>
          /\ Len(table) = atCall.rows
          /\ TimesOf(RowsOf(table, arg.path)) = atCall.prior
    /\ RunAfterStoppedUpdate =>
          Len(RowsOf(table, prev.listing[1])) = IF failures = 0 THEN 1 ELSE 0

C13_Witness ==
    /\ RunAfterStoppedUpdate
    /\ failures = 0
    /\ prev.listing = <<1>>
    /\ prev.rows = 2
    /\ atCall.rows = 1
    /\ WriteCalls(storeLog) = 1
    /\ Len(RowsOf(table, 1)) = 1
    /\ Len(table) = 2

----------------------------------------------------------------------------
(* Unreadable files, checked under Spec *)

Unreadable == [ok |-> FALSE, data |-> ""]

\* C16: a file that cannot be read is converted, without an error, to a record
\* with empty content and subnoteindex 0; a run writes a record for every
\* listed file without a row, whatever its read gave; and a path whose row has
\* empty content counts as present: a later run gives it no other row.
C16_UnreadableFile ==
    /\ \A p \in Paths : \A t \in 0..MaxTime :
           convertFileTypeToDBType(p, Unreadable, t) =
               [notepath |-> p, content |-> "", subnoteindex |-> 0, timeadded |-> t]
    /\ (op = "repopulate" /\ pc = "add") =>
          LET records == Flatten(frame.chunks)
          IN  /\ NotePaths(records) =
                     SelectSeq(atCall.listing, LAMBDA p : RowsOf(TableAtCall, p) = <<>>)
              /\ \A i \in 1..Len(records) : records[i].subnoteindex = 0
    /\ RunDone =>
          \A p \in Paths :
              (\E i \in 1..atCall.rows : table[i].notepath = p /\ table[i].content = "")
                  => RowsOf(table, p) = RowsOf(TableAtCall, p)

C16_Witness ==
    /\ SecondRun
    /\ prev.failures = 0
    /\ prev.rows = 0
    /\ prev.listing = <<1>>
    /\ atCall.rows = 1
    /\ Len(table) = 1
    /\ table[1].notepath = 1
    /\ table[1].content = ""
    /\ WriteCalls(storeLog) = 0

====
